---- MODULE Spec2Model ----
(***************************************************************************)
(* Remote code execution client and interactive terminal sessions of the   *)
(* online code editor: src/lib/docker-service.ts, the second execution     *)
(* client kept in src/lib/code-runner.ts, and the React components that    *)
(* call them (docker-code-editor.tsx, interactive-terminal.tsx).           *)
(*                                                                         *)
(* A JavaScript string is a sequence of tokens.  A token is one character  *)
(* ("a", " ", "\n") or one fixed fragment of a literal of the source       *)
(* ("Running ", "Execution timed out"); the empty string is <<>>, so the   *)
(* truthiness test `if (input)` is input # <<>>.                           *)
(***************************************************************************)
EXTENDS Integers, Sequences, FiniteSets, TLC

VARIABLES
    impl,           \* which execution client is linked: "ds" docker-service.ts, "cr" code-runner.ts
    socket,         \* module variable `socket`: 0 is null, otherwise the handle io() returned
    ioCount,        \* number of io() constructions so far
    calls,          \* executeCode calls, in call order
    execListeners,  \* once('execution_result') listeners on the socket, in registration order
    joins,          \* executionIds emitted with join_execution, in order
    resultSent,     \* executionIds whose execution_result the backend has emitted
    ui,             \* state of the DockerCodeEditor component
    creates,        \* createTerminalSession calls, in call order
    createdListeners, \* once('terminal_created') listeners, by createTerminalSession call
    errorListeners, \* once('terminal_error') listeners, by createTerminalSession call
    handlers,       \* handlers registered through onTerminalOutput, in registration order
    termEmits,      \* terminal_* events emitted on the socket, in order
    chunks,         \* terminal_output events delivered to the socket, in order
    backend,        \* the backend's terminal sessions and answered terminal_create requests,
                    \* whether the socket can reach it, and the connection attempts that failed
    comp,           \* state of the InteractiveTerminal component
    localStorage,   \* window.localStorage: the items stored, by key
    requests,       \* HTTP requests of the storage and auth services, in order
    saves,          \* saveCodeSnippet calls, in call order
    callbacks,      \* handleAuthCallback calls, in call order
    authImpl        \* which half of auth-service.ts is linked: "api" lines 1-191,
                    \* "mock" lines 193-375

termVars == <<creates, createdListeners, errorListeners, handlers, termEmits, chunks,
              backend, comp>>

webVars == <<localStorage, requests, saves, callbacks, authImpl>>

vars == <<impl, socket, ioCount, calls, execListeners, joins, resultSent, ui, termVars,
          webVars>>

----------------------------------------------------------------------------
(* Bounds *)

MaxCalls == 2
MaxLen == 3
MaxCreates == 2
MaxHandlers == 2
MaxChunks == 2
MaxEmits == 2
MaxLibCalls == 3
MaxAttempts == 2
MaxSaves == 2
MaxCallbacks == 2

----------------------------------------------------------------------------
(* Strings *)

Newline == "\n"
Whitespace == {" ", Newline, "\t", "\r"}

Banner == "** Process exited - Return Code:"
PressEnter == "Press Enter to exit terminal"

\* String.prototype.includes for a one-token pattern
Includes(s, tok) == \E i \in 1..Len(s) : s[i] = tok

\* String.prototype.trim
RECURSIVE TrimLeft(_)
TrimLeft(s) ==
    IF s # <<>> /\ Head(s) \in Whitespace THEN TrimLeft(Tail(s)) ELSE s

RECURSIVE TrimRight(_)
TrimRight(s) ==
    IF s # <<>> /\ s[Len(s)] \in Whitespace
    THEN TrimRight(SubSeq(s, 1, Len(s) - 1))
    ELSE s

Trim(s) == TrimRight(TrimLeft(s))

\* String.prototype.split('\n'): the segments between newlines, empty ones kept
RECURSIVE Split(_)
Split(s) ==
    IF ~Includes(s, Newline)
    THEN <<s>>
    ELSE LET i == CHOOSE k \in 1..Len(s) :
                      s[k] = Newline /\ \A j \in 1..(k - 1) : s[j] # Newline
         IN <<SubSeq(s, 1, i - 1)>> \o Split(SubSeq(s, i + 1, Len(s)))

InSeq(seq, x) == \E i \in 1..Len(seq) : seq[i] = x

\* All strings over an alphabet up to a length
Texts(alphabet, n) == UNION {[1..k -> alphabet] : k \in 0..n}

\* Template literal conversion of a number
NumStr(n) == <<ToString(n)>>

----------------------------------------------------------------------------
(* TerminalOutput lines *)

Line(t, c) == [type |-> t, content |-> c]

CommandLine(language) == Line("command", <<"Running ", language, " code...">>)
InputLine(input) == Line("input", input)
InputEcho(input) == IF input # <<>> THEN <<InputLine(input)>> ELSE <<>>

\* outputLines.forEach(line => { if (line.trim()) push standard })
StandardLines(output) ==
    LET segs == Split(output)
        NonBlank(l) == Trim(l) # <<>>
        kept == SelectSeq(segs, NonBlank)
    IN [i \in 1..Len(kept) |-> Line("standard", kept[i])]

SuccessLine(exitCode) ==
    Line("success", <<"Program exited with code ">> \o NumStr(exitCode))

\* The output of a malformed result object: the property is missing
Undefined == <<"undefined">>

\* content: result.output || 'Execution failed'; undefined is falsy, as '' is
FailureLine(output) ==
    Line("error", IF output # <<>> /\ output # Undefined THEN output
                  ELSE <<"Execution failed">>)

\* Mutant of TimeoutLines: the timeout is appended to a command line
TimeoutLinesAfterCommand ==
    <<Line("command", <<"Running code...">>), Line("error", <<"Execution timed out">>)>>

TimeoutLines == <<Line("error", <<"Execution timed out">>)>>

ParseErrorLine == Line("error", <<"Server error: Could not parse response">>)

\* catch (error): content is error.message
CaughtLines(message) == <<Line("error", message)>>

----------------------------------------------------------------------------
(* Results and their rendering *)

NoResult == [status |-> "none", output |-> <<>>, exitCode |-> 0]

\* result.output.split('\n') of the success branch throws a TypeError when
\* result.output is undefined; the failure branch reads result.output || '...'
Throws(result) == result.status = "success" /\ result.output = Undefined

TypeErrorMessage == <<"Cannot read properties of undefined (reading 'split')">>

ResultBody(result) ==
    IF result.status = "success"
    THEN StandardLines(result.output) \o <<SuccessLine(result.exitCode)>>
    ELSE <<FailureLine(result.output)>>

\* docker-service.ts, the once('execution_result') handler
DeferredLinesDS(language, input, result) ==
    <<CommandLine(language)>> \o ResultBody(result)

\* code-runner.ts, the `if (data.result)` branch: the input echo is pushed
\* inside the success branch only
InlineLinesCR(language, input, result) ==
    <<CommandLine(language)>>
    \o (IF result.status = "success"
        THEN InputEcho(input) \o StandardLines(result.output)
             \o <<SuccessLine(result.exitCode)>>
        ELSE <<FailureLine(result.output)>>)

\* terminalOutput.filter(line => !includes(banner) && !includes(press enter))
FilterControlLines(lines) ==
    LET Keep(l) == ~Includes(l.content, Banner) /\ ~Includes(l.content, PressEnter)
    IN SelectSeq(lines, Keep)

\* code-runner.ts, the once('execution_result') handler
DeferredLinesCR(language, input, result) ==
    FilterControlLines(<<CommandLine(language)>> \o InputEcho(input) \o ResultBody(result))

DeferredLines(im, language, input, result) ==
    IF im = "ds" THEN DeferredLinesDS(language, input, result)
    ELSE DeferredLinesCR(language, input, result)

----------------------------------------------------------------------------
(* Code, as far as executeCode and the editor inspect it *)

\* includesPrint: code.includes('print(');  prints: the arguments matched by
\* /print\s*\(([^)]*)\)/g;  includesInput: code.includes('input(');
\* inputVar: the name matched by /([\w]+)\s*=\s*input\s*\(([^)]*)\)/, or ''
MkCode(includesPrint, prints, includesInput, inputVar) ==
    [includesPrint |-> includesPrint, prints |-> prints,
     includesInput |-> includesInput, inputVar |-> inputVar]

PrintArg(form, body) == [form |-> form, body |-> body]

\* fstring.replace(/\{([^}]*)\}/g, () => input)
RECURSIVE ReplacePlaceholders(_, _)
ReplacePlaceholders(body, input) ==
    IF body = <<>> THEN <<>>
    ELSE (IF Head(body) = "{x}" THEN input ELSE <<Head(body)>>)
         \o ReplacePlaceholders(Tail(body), input)

\* The text one print statement contributes on the client-side Python path
PrintOutput(arg, input, varName) ==
    CASE arg.form = "str" -> arg.body
      [] arg.form = "fstr" ->
            IF Includes(arg.body, "{x}") /\ input # <<>>
            THEN ReplacePlaceholders(arg.body, input)
            ELSE <<"f", "\"">> \o arg.body \o <<"\"">>
      [] OTHER ->
            IF varName # <<>> /\ arg.body = varName THEN input ELSE arg.body

\* code-runner.ts: the prelude and the client-side Python path.  `returned`
\* tells whether executeCode returned `lines` without reaching the backend;
\* otherwise `lines` is the outer terminalOutput the rest of the call holds.
FastPath(language, input, code) ==
    LET prelude == <<CommandLine(language)>> \o InputEcho(input)
        varName == IF code.inputVar # <<>> /\ input # <<>> THEN code.inputVar ELSE <<>>
        printed == [i \in 1..Len(code.prints) |->
                       Line("standard", PrintOutput(code.prints[i], input, varName))]
    IN IF language = "python" /\ code.includesPrint /\ Len(code.prints) > 0
       THEN [returned |-> ~code.includesInput \/ (code.includesInput /\ input # <<>>),
             lines |-> prelude \o printed \o <<SuccessLine(0)>>]
       ELSE [returned |-> FALSE, lines |-> prelude]

----------------------------------------------------------------------------
(* The socket singleton *)

\* Mutant of GetSocket: a connection is constructed on every call
GetSocketFresh(sock, count) ==
    [socket |-> count + 1, ioCount |-> count + 1]

\* getSocket(): construct the connection on first use, then return it
GetSocket(sock, count) ==
    IF sock = 0
    THEN [socket |-> count + 1, ioCount |-> count + 1]
    ELSE [socket |-> sock, ioCount |-> count]

\* A connection attempt of the socket fails and its connect_error listener
\* runs: console.error(...), and nothing else.  The socket gives up after
\* its reconnection attempts.
ConnectError ==
    /\ socket # 0
    /\ ~backend.reachable
    /\ backend.attempts < MaxAttempts
    /\ backend' = [backend EXCEPT !.attempts = @ + 1]
    /\ UNCHANGED <<webVars, impl, socket, ioCount, calls, execListeners, joins, resultSent, ui,
                   creates, createdListeners, errorListeners, handlers, termEmits,
                   chunks, comp>>

----------------------------------------------------------------------------
(* executeCode *)

\* The response of POST /api/execute
Response(kind, ok, shape, msg, result) ==
    [kind |-> kind, ok |-> ok, shape |-> shape, msg |-> msg, result |-> result]

NoResponse == Response("none", FALSE, "none", <<>>, NoResult)

Responses(results, msgs) ==
    {Response("network", FALSE, "none", <<>>, NoResult)}
    \cup {Response("http", ok, "garbage", <<>>, NoResult) : ok \in BOOLEAN}
    \cup {Response("http", ok, "id", <<>>, NoResult) : ok \in BOOLEAN}
    \cup {Response("http", FALSE, "error", m, NoResult) : m \in msgs}
    \cup {Response("http", TRUE, "result", <<>>, r) : r \in results}

\* Mutant of Resolve: every settlement overwrites the value
ResolveLastWins(call, lines) ==
    [call EXCEPT !.settled = TRUE, !.value = lines]

\* resolve() of a promise: the first settlement wins, later ones are ignored
Resolve(call, lines) ==
    IF call.settled
    THEN call
    ELSE [call EXCEPT !.settled = TRUE, !.value = lines]

\* `return lines` of the async function; `path` names the return statement
Return(call, lines, path) ==
    [Resolve(call, lines) EXCEPT !.pc = "done", !.path = path]

\* resp, hist, gotExec, got and regs are history: the response the fetch of
\* the call got; the callbacks of the call that have run, in order; the execution whose result its listener was given,
\* and that result; the number of execution_result listeners before it
\* registered its own
NewCall(language, input, code, origin) ==
    [lang |-> language, input |-> input, code |-> code, origin |-> origin,
     pc |-> "start", path |-> "none", sock |-> 0, execId |-> 0, joined |-> FALSE,
     outer |-> <<>>, settled |-> FALSE, value |-> <<>>, timer |-> "none",
     resp |-> NoResponse, hist |-> <<>>, gotExec |-> 0, got |-> NoResult, regs |-> 0,
     resumed |-> FALSE]

\* executeCode up to `await fetch(...)`, or to the return of the client-side path
StartExecute(language, input, code, origin) ==
    LET call == NewCall(language, input, code, origin)
        fast == FastPath(language, input, code)
        got == GetSocket(socket, ioCount)
    IN IF impl = "cr" /\ fast.returned
       THEN /\ calls' = Append(calls, Return(call, fast.lines, "fast"))
            /\ UNCHANGED <<socket, ioCount>>
       ELSE /\ calls' = Append(calls,
                   [call EXCEPT !.pc = "fetch", !.sock = got.socket,
                                !.outer = IF impl = "cr" THEN fast.lines ELSE <<>>])
            /\ socket' = got.socket
            /\ ioCount' = got.ioCount

\* new Promise(resolve => { socket.once('execution_result', ...); setTimeout(...) })
\* after socket.emit('join_execution', executionId)
Wait(call, c, executionId) ==
    [call EXCEPT !.pc = "waiting", !.path = "deferred", !.execId = executionId,
                 !.joined = TRUE, !.timer = "pending", !.regs = Len(execListeners)]

\* docker-service.ts executeCode from the fetch response on
AfterFetchDS(call, c, resp) ==
    IF resp.kind = "network"
    THEN Return(call, CaughtLines(<<"Failed to fetch">>), "error")
    ELSE IF resp.shape = "garbage"
    THEN Return(call, CaughtLines(<<"Unexpected token in JSON">>), "error")
    ELSE IF ~resp.ok
    THEN Return(call, CaughtLines(IF resp.msg # <<>> THEN resp.msg
                                  ELSE <<"Failed to execute code">>), "error")
    ELSE Wait(call, c, IF resp.shape = "id" THEN c ELSE 0)

\* code-runner.ts executeCode from the fetch response on
AfterFetchCR(call, c, resp) ==
    IF resp.kind = "network"
    THEN Return(call, CaughtLines(<<"Failed to fetch">>), "error")
    ELSE IF resp.shape = "garbage"
    THEN Return(call, Append(call.outer, ParseErrorLine), "parse")
    ELSE IF resp.shape = "result"
    THEN IF Throws(resp.result)
         THEN Return(call, CaughtLines(TypeErrorMessage), "error")
         ELSE Return(call, InlineLinesCR(call.lang, call.input, resp.result), "inline")
    ELSE Wait(call, c, IF resp.shape = "id" THEN c ELSE 0)

AfterFetch(call, c, resp) ==
    IF impl = "ds" THEN AfterFetchDS(call, c, resp) ELSE AfterFetchCR(call, c, resp)

\* The fetch of call c completes with resp and executeCode runs on
FetchResponds(c, resp) ==
    /\ calls[c].pc = "fetch"
    /\ LET after == AfterFetch([calls[c] EXCEPT !.resp = resp], c, resp)
       IN /\ calls' = [calls EXCEPT ![c] = after]
          /\ IF after.pc = "waiting"
             THEN /\ joins' = Append(joins, after.execId)
                  /\ execListeners' = Append(execListeners, c)
             ELSE UNCHANGED <<joins, execListeners>>
    /\ UNCHANGED <<webVars, impl, socket, ioCount, resultSent, ui, termVars>>

\* Mutant of OnExecutionResult: the handler renders into an array that the
\* results delivered before have left a line in
OnExecutionResultShared(call, x, result) ==
    IF Throws(result)
    THEN [call EXCEPT !.hist = Append(@, "threw")]
    ELSE [Resolve(call, (IF resultSent # {} THEN <<CommandLine(call.lang)>> ELSE <<>>)
                        \o DeferredLines(impl, call.lang, call.input, result))
          EXCEPT !.pc = "done", !.hist = Append(@, "result"),
                 !.gotExec = x, !.got = result]

\* The once('execution_result') handler of call c runs with `result`,
\* the result of execution x; when it throws, resolve is not reached
OnExecutionResult(call, x, result) ==
    IF Throws(result)
    THEN [call EXCEPT !.hist = Append(@, "threw")]
    ELSE [Resolve(call, DeferredLines(impl, call.lang, call.input, result))
          EXCEPT !.pc = "done", !.hist = Append(@, "result"),
                 !.gotExec = x, !.got = result]

\* The listeners a delivery of `result` runs: emit calls the listeners in
\* registration order, each once-listener is removed before it is called,
\* and a listener that throws ends the loop
Invoked(result) ==
    IF Throws(result) /\ execListeners # <<>> THEN <<Head(execListeners)>> ELSE execListeners

\* The backend emits execution_result for execution x to the room x, which
\* this socket joined; every registered once-listener runs and is removed
DeliverResult(x, result) ==
    /\ backend.reachable
    /\ x # 0
    /\ InSeq(joins, x)
    /\ x \notin resultSent
    /\ resultSent' = resultSent \cup {x}
    /\ calls' = [c \in 1..Len(calls) |->
                    IF InSeq(Invoked(result), c)
                    THEN OnExecutionResult(calls[c], x, result)
                    ELSE calls[c]]
    /\ execListeners' = SelectSeq(execListeners, LAMBDA c : ~InSeq(Invoked(result), c))
    /\ UNCHANGED <<webVars, impl, socket, ioCount, joins, ui, termVars>>

\* Mutant of TimerLocalOutput: the array the timeout callback tests has a line
TimerLocalOutputWritten == <<Line("command", <<"Running code...">>)>>

\* The array the timeout callback tests: `const terminalOutput = []` of the
\* promise executor, which nothing writes to
TimerLocalOutput == <<>>

\* The setTimeout callback of call c
OnTimeout(call) ==
    LET fired == [call EXCEPT !.timer = "fired", !.hist = Append(@, "timer")]
    IN IF Len(TimerLocalOutput) = 0
       THEN [Resolve(fired, TimeoutLines) EXCEPT !.pc = "done"]
       ELSE fired

TimerFires(c) ==
    /\ calls[c].timer = "pending"
    /\ calls' = [calls EXCEPT ![c] = OnTimeout(calls[c])]
    /\ UNCHANGED <<webVars, impl, socket, ioCount, execListeners, joins, resultSent, ui, termVars>>

\* The calls whose fetch is pending, and the executions whose result the
\* backend can still deliver to this socket
Fetching == {c \in 1..Len(calls) : calls[c].pc = "fetch"}

Deliverable == {x \in 1..Len(calls) : x \notin resultSent /\ InSeq(joins, x)}

\* A caller of the module calls executeCode(code, language, input)
ExecuteCode(language, input, code) ==
    /\ Len(calls) < MaxCalls
    /\ StartExecute(language, input, code, "lib")
    /\ UNCHANGED <<webVars, impl, execListeners, joins, resultSent, ui, termVars>>

----------------------------------------------------------------------------
(* Terminal sessions: the library functions of docker-service.ts *)

Emit(ev, sid, language, text, cols, rows, sock) ==
    [ev |-> ev, sid |-> sid, lang |-> language, text |-> text,
     cols |-> cols, rows |-> rows, sock |-> sock]

\* Mutant of Settle: every settlement overwrites the outcome
SettleLastWins(create, state, sid, message) ==
    [create EXCEPT !.state = state, !.sid = sid, !.message = message]

\* An event a callback of createTerminalSession ran with, kept as history
Event(kind, sid, message) == [kind |-> kind, sid |-> sid, message |-> message]

\* resolve()/reject() of the promise of createTerminalSession
Settle(create, state, sid, message) ==
    IF create.state # "pending"
    THEN create
    ELSE [create EXCEPT !.state = state, !.sid = sid, !.message = message]

\* createTerminalSession(language), called by `owner` when the events emitted
\* so far are `emits`
StartCreate(language, owner, emits) ==
    LET got == GetSocket(socket, ioCount)
        k == Len(creates) + 1
    IN /\ socket' = got.socket
       /\ ioCount' = got.ioCount
       /\ termEmits' = Append(emits,
              Emit("terminal_create", 0, language, <<>>, 0, 0, got.socket))
       /\ creates' = Append(creates,
              [lang |-> language, owner |-> owner, sock |-> got.socket,
               state |-> "pending", sid |-> 0, message |-> <<>>,
               timer |-> "pending", hist |-> <<>>, resumed |-> FALSE])
       /\ createdListeners' = Append(createdListeners, k)
       /\ errorListeners' = Append(errorListeners, k)

\* The once('terminal_created') handler: resolve(data.sessionId)
OnTerminalCreated(create, sid) ==
    [Settle(create, "resolved", sid, <<>>)
     EXCEPT !.hist = Append(@, Event("created", sid, <<>>))]

\* The once('terminal_error') handler:
\* reject(new Error(error.message || 'Failed to create terminal session'))
OnTerminalError(create, message) ==
    [Settle(create, "rejected", 0,
            IF message # <<>> THEN message ELSE <<"Failed to create terminal session">>)
     EXCEPT !.hist = Append(@, Event("error", 0, message))]

\* Mutant of OnCreateTimeout: the callback runs and rejects nothing
OnCreateTimeoutSilent(create) ==
    [create EXCEPT !.hist = Append(@, Event("timer", 0, <<>>)), !.timer = "fired"]

\* The setTimeout callback: reject(new Error('Terminal creation timed out'))
OnCreateTimeout(create) ==
    [Settle(create, "rejected", 0, <<"Terminal creation timed out">>)
     EXCEPT !.hist = Append(@, Event("timer", 0, <<>>)), !.timer = "fired"]

\* Mutant of HandlerAccepts: the handler passes every chunk on
HandlerAcceptsAll(handler, data) == TRUE

\* The handler of onTerminalOutput: `if (data.sessionId === sessionId)`
HandlerAccepts(handler, data) == data.sessionId = handler.sid

\* The handler runs with a terminal_output event
OnTerminalOutputEvent(handler, data) ==
    IF handler.on /\ HandlerAccepts(handler, data)
    THEN [handler EXCEPT !.got = Append(@, data.output)]
    ELSE handler

\* onTerminalOutput(sessionId, callback): socket.on('terminal_output', handler)
Register(sid, owner, sock) ==
    [sid |-> sid, owner |-> owner, sock |-> sock, on |-> TRUE, got |-> <<>>,
     from |-> Len(chunks), upto |-> 0]

\* The function onTerminalOutput returned: socket.off('terminal_output', handler)
Off(handler) == [handler EXCEPT !.on = FALSE, !.upto = Len(chunks)]

\* Mutant of RemoveListener: socket.off('terminal_output') with no handler
RemoveAllListeners(hs, h) ==
    [g \in 1..Len(hs) |-> IF hs[g].on THEN Off(hs[g]) ELSE hs[g]]

\* The listeners of the socket after socket.off('terminal_output', handler)
\* for the handler h: each onTerminalOutput call made a handler of its own
RemoveListener(hs, h) == [hs EXCEPT ![h] = Off(@)]

\* sendTerminalInput, resizeTerminal, closeTerminalSession: getSocket() and one emit
EmitOn(ev, sid, text, cols, rows) ==
    LET got == GetSocket(socket, ioCount)
    IN /\ socket' = got.socket
       /\ ioCount' = got.ioCount
       /\ termEmits' = Append(termEmits, Emit(ev, sid, "", text, cols, rows, got.socket))

\* The backend answers the oldest unanswered terminal_create with
\* terminal_created {sessionId}; backend.langs[s] is the language session s
\* was created for
TerminalCreated ==
    LET sid == backend.sessions + 1
    IN /\ backend.reachable
       /\ backend.answered < Len(creates)
       /\ backend' = [backend EXCEPT !.answered = @ + 1, !.sessions = sid,
                                     !.langs = Append(@, creates[backend.answered + 1].lang)]
       /\ creates' = [k \in 1..Len(creates) |->
                         IF InSeq(createdListeners, k)
                         THEN OnTerminalCreated(creates[k], sid)
                         ELSE creates[k]]
       /\ createdListeners' = <<>>
       /\ UNCHANGED <<webVars, impl, socket, ioCount, calls, execListeners, joins, resultSent, ui,
                      errorListeners, handlers, termEmits, chunks, comp>>

\* The backend answers a terminal_create with terminal_error {message}
TerminalError(message) ==
    /\ backend.reachable
    /\ backend.answered < Len(creates)
    /\ backend' = [backend EXCEPT !.answered = @ + 1]
    /\ creates' = [k \in 1..Len(creates) |->
                      IF InSeq(errorListeners, k)
                      THEN OnTerminalError(creates[k], message)
                      ELSE creates[k]]
    /\ errorListeners' = <<>>
    /\ UNCHANGED <<webVars, impl, socket, ioCount, calls, execListeners, joins, resultSent, ui,
                   createdListeners, handlers, termEmits, chunks, comp>>

\* The 10 s timer of createTerminalSession call k fires
CreateTimerFires(k) ==
    /\ creates[k].timer = "pending"
    /\ creates' = [creates EXCEPT ![k] = OnCreateTimeout(creates[k])]
    /\ UNCHANGED <<webVars, impl, socket, ioCount, calls, execListeners, joins, resultSent, ui,
                   createdListeners, errorListeners, handlers, termEmits, chunks,
                   backend, comp>>

\* The backend streams a chunk of session sid: every registered handler runs
TerminalOutput(sid, text) ==
    /\ Len(chunks) < MaxChunks
    /\ backend.reachable
    /\ sid \in 1..backend.sessions
    /\ LET data == [sessionId |-> sid, output |-> text]
       IN /\ chunks' = Append(chunks, data)
          /\ handlers' = [h \in 1..Len(handlers) |->
                             OnTerminalOutputEvent(handlers[h], data)]
          /\ comp' = IF \E h \in 1..Len(handlers) :
                            /\ handlers[h].owner = "comp"
                            /\ handlers[h].on
                            /\ HandlerAccepts(handlers[h], data)
                     THEN [comp EXCEPT !.output = Append(@, text)]
                     ELSE comp
    /\ UNCHANGED <<webVars, impl, socket, ioCount, calls, execListeners, joins, resultSent, ui,
                   creates, createdListeners, errorListeners, termEmits, backend>>

\* A caller of the module calls createTerminalSession(language)
CreateTerminalSession(language) ==
    /\ Len(creates) < MaxCreates
    /\ StartCreate(language, 0, termEmits)
    /\ UNCHANGED <<webVars, impl, calls, execListeners, joins, resultSent, ui,
                   handlers, chunks, backend, comp>>

\* A caller of the module calls onTerminalOutput(sid, callback)
OnTerminalOutput(sid) ==
    /\ Len(handlers) < MaxHandlers
    /\ LET got == GetSocket(socket, ioCount)
       IN /\ socket' = got.socket
          /\ ioCount' = got.ioCount
          /\ handlers' = Append(handlers, Register(sid, "lib", got.socket))
    /\ UNCHANGED <<webVars, impl, calls, execListeners, joins, resultSent, ui,
                   creates, createdListeners, errorListeners, termEmits, chunks,
                   backend, comp>>

\* The caller calls the cleanup function of handler h
Unsubscribe(h) ==
    /\ handlers[h].on
    /\ handlers[h].owner = "lib"
    /\ handlers' = RemoveListener(handlers, h)
    /\ UNCHANGED <<webVars, impl, socket, ioCount, calls, execListeners, joins, resultSent, ui,
                   creates, createdListeners, errorListeners, termEmits, chunks,
                   backend, comp>>

LibEmits == Len(SelectSeq(termEmits, LAMBDA e : e.ev # "terminal_create"))

\* A caller of the module calls sendTerminalInput(sid, text)
SendTerminalInput(sid, text) ==
    /\ LibEmits < MaxEmits
    /\ EmitOn("terminal_input", sid, text, 0, 0)
    /\ UNCHANGED <<webVars, impl, calls, execListeners, joins, resultSent, ui,
                   creates, createdListeners, errorListeners, handlers, chunks,
                   backend, comp>>

\* A caller of the module calls resizeTerminal(sid, cols, rows)
ResizeTerminal(sid, cols, rows) ==
    /\ LibEmits < MaxEmits
    /\ EmitOn("terminal_resize", sid, <<>>, cols, rows)
    /\ UNCHANGED <<webVars, impl, calls, execListeners, joins, resultSent, ui,
                   creates, createdListeners, errorListeners, handlers, chunks,
                   backend, comp>>

\* A caller of the module calls closeTerminalSession(sid)
CloseTerminalSession(sid) ==
    /\ LibEmits < MaxEmits
    /\ EmitOn("terminal_close", sid, <<>>, 0, 0)
    /\ UNCHANGED <<webVars, impl, calls, execListeners, joins, resultSent, ui,
                   creates, createdListeners, errorListeners, handlers, chunks,
                   backend, comp>>

----------------------------------------------------------------------------
(* The InteractiveTerminal component *)

\* comp.cleanupSid is the sessionId the cleanup of the [language] effect
\* closed over: the state of the render in which the effect last ran.
\* comp.handler is the handler the [sessionId] effect registered, 0 for none.
\* The owner of a createTerminalSession call is the component instance that
\* awaits it, 0 for another caller.

\* The component mounts: first render, then the [language] effect runs
\* initTerminal() up to `await createTerminalSession(language)`
Mount(language) ==
    /\ ~comp.mounted
    /\ Len(creates) < MaxCreates
    /\ comp' = [mounted |-> TRUE, instance |-> comp.instance + 1, language |-> language,
                sessionId |-> 0, isConnected |-> FALSE, isLoading |-> TRUE,
                cleanupSid |-> 0, handler |-> 0, output |-> <<>>]
    /\ StartCreate(language, comp.instance + 1, termEmits)
    /\ UNCHANGED <<webVars, impl, calls, execListeners, joins, resultSent, ui, handlers, chunks,
                   backend>>

\* initTerminal() resumes after createTerminalSession call k settled; the
\* state updates of an instance that is no longer mounted are dropped.  A
\* changed sessionId re-runs the [sessionId] effect: cleanup, then
\* onTerminalOutput(sessionId, ...)
InitTerminalResumes(k) ==
    /\ creates[k].owner # 0
    /\ creates[k].state # "pending"
    /\ ~creates[k].resumed
    /\ creates' = [creates EXCEPT ![k].resumed = TRUE]
    /\ IF comp.mounted /\ comp.instance = creates[k].owner
       THEN IF creates[k].state = "resolved"
            THEN LET changed == creates[k].sid # comp.sessionId
                     cleaned == IF changed /\ comp.handler # 0
                                THEN RemoveListener(handlers, comp.handler)
                                ELSE handlers
                 IN /\ handlers' = IF changed
                                   THEN Append(cleaned,
                                               Register(creates[k].sid, "comp", socket))
                                   ELSE handlers
                    /\ comp' = [comp EXCEPT
                          !.sessionId = creates[k].sid,
                          !.isConnected = TRUE,
                          !.isLoading = FALSE,
                          !.handler = IF changed THEN Len(handlers) + 1 ELSE @,
                          !.output = Append(@, <<"Connected to ", creates[k].lang,
                                                 " environment">>)]
            ELSE /\ comp' = [comp EXCEPT
                       !.isLoading = FALSE,
                       !.output = Append(@,
                           <<"Failed to connect to terminal. Please try again.">>)]
                 /\ UNCHANGED handlers
       ELSE UNCHANGED <<comp, handlers>>
    /\ UNCHANGED <<webVars, impl, socket, ioCount, calls, execListeners, joins, resultSent, ui,
                   createdListeners, errorListeners, termEmits, chunks, backend>>

\* The cleanup of the [language] effect: if (sessionId) closeTerminalSession(sessionId)
CleanupEmits(emits) ==
    IF comp.cleanupSid # 0
    THEN Append(emits, Emit("terminal_close", comp.cleanupSid, "", <<>>, 0, 0, socket))
    ELSE emits

\* The language prop changes: the cleanup of the [language] effect runs,
\* then the effect runs initTerminal() again
ChangeLanguage(language) ==
    /\ comp.mounted
    /\ language # comp.language
    /\ Len(creates) < MaxCreates
    /\ StartCreate(language, comp.instance, CleanupEmits(termEmits))
    /\ comp' = [comp EXCEPT !.language = language, !.isLoading = TRUE,
                            !.cleanupSid = comp.sessionId]
    /\ UNCHANGED <<webVars, impl, calls, execListeners, joins, resultSent, ui,
                   handlers, chunks, backend>>

\* The component unmounts: the cleanups of its effects run
Unmount ==
    /\ comp.mounted
    /\ termEmits' = CleanupEmits(termEmits)
    /\ handlers' = IF comp.handler # 0
                   THEN RemoveListener(handlers, comp.handler)
                   ELSE handlers
    /\ comp' = [comp EXCEPT !.mounted = FALSE]
    /\ UNCHANGED <<webVars, impl, socket, ioCount, calls, execListeners, joins, resultSent, ui,
                   creates, createdListeners, errorListeners, chunks, backend>>

\* Mutant of HandleSubmit: no test of the session id and of the input
HandleSubmitUnchecked(text) ==
    /\ comp.mounted
    /\ LibEmits < MaxEmits
    /\ comp' = [comp EXCEPT !.output = Append(@, <<"$ ">> \o text)]
    /\ EmitOn("terminal_input", comp.sessionId, text \o <<Newline>>, 0, 0)
    /\ UNCHANGED <<webVars, impl, calls, execListeners, joins, resultSent, ui,
                   creates, createdListeners, errorListeners, handlers, chunks, backend>>

\* handleSubmit with `text` typed into the input field; the field, the only
\* control of the form, is disabled={!isConnected || isLoading}
HandleSubmit(text) ==
    /\ comp.mounted
    /\ comp.isConnected /\ ~comp.isLoading
    /\ LibEmits < MaxEmits
    /\ IF comp.sessionId = 0 \/ Trim(text) = <<>>
       THEN UNCHANGED <<comp, termEmits, socket, ioCount>>
       ELSE /\ comp' = [comp EXCEPT !.output = Append(@, <<"$ ">> \o text)]
            /\ EmitOn("terminal_input", comp.sessionId, text \o <<Newline>>, 0, 0)
    /\ UNCHANGED <<webVars, impl, calls, execListeners, joins, resultSent, ui,
                   creates, createdListeners, errorListeners, handlers, chunks, backend>>

\* The ResizeObserver of the [sessionId] effect reports a size in pixels
Resized(width, height) ==
    /\ comp.mounted
    /\ comp.sessionId # 0
    /\ LibEmits < MaxEmits
    /\ EmitOn("terminal_resize", comp.sessionId, <<>>, width \div 8, height \div 16)
    /\ UNCHANGED <<webVars, impl, calls, execListeners, joins, resultSent, ui,
                   creates, createdListeners, errorListeners, handlers, chunks,
                   backend, comp>>

----------------------------------------------------------------------------
(* The DockerCodeEditor component *)

\* checkForInputStatements(code, language): of the patterns of the languages
\* modelled, only Python's /in[tp]ut\s*\(/ matches a code with `input(`
CheckForInputStatements(code, language) ==
    language = "python" /\ code.includesInput

\* The Run button is enabled: disabled={isRunning || !code.trim()}, and no
\* click reaches it under the modal input dialog
RunEnabled == ~ui.isRunning /\ ~ui.showInputDialog

\* handleRunCode when the code needs input: the dialog is shown and the
\* function returns, through its finally block
RunShowsDialog ==
    [ui EXCEPT !.output = <<CommandLine(ui.language)>>,
               !.showInputDialog = TRUE,
               !.isRunning = FALSE, !.needsInput = FALSE, !.userInput = <<>>]

\* handleRunCode up to `await executeCode(code, language, userInput)`
RunStartsExecution ==
    [ui EXCEPT !.output = <<CommandLine(ui.language)>>, !.isRunning = TRUE]

\* A click on Run: handleRunCode up to its first suspension or its return
HandleRunCode ==
    /\ RunEnabled
    /\ Len(calls) < MaxCalls
    /\ IF CheckForInputStatements(ui.code, ui.language)
       THEN /\ ui' = RunShowsDialog
            /\ UNCHANGED <<socket, ioCount, calls>>
       ELSE /\ ui' = RunStartsExecution
            /\ StartExecute(ui.language, ui.userInput, ui.code, "run")
    /\ UNCHANGED <<webVars, impl, execListeners, joins, resultSent, termVars>>

\* handleRunCode resumes with the result of call c: setOutput(result), finally
RunResumes(c) ==
    /\ calls[c].origin = "run"
    /\ calls[c].settled
    /\ ~calls[c].resumed
    /\ calls' = [calls EXCEPT ![c].resumed = TRUE]
    /\ ui' = [ui EXCEPT !.output = calls[c].value,
                        !.isRunning = FALSE, !.needsInput = FALSE, !.userInput = <<>>]
    /\ UNCHANGED <<webVars, impl, socket, ioCount, execListeners, joins, resultSent, termVars>>

\* The dialog submits `input`: handleInputSubmit up to `await executeCode(...)`
HandleInputSubmit(input) ==
    /\ ui.showInputDialog
    /\ Len(calls) < MaxCalls
    /\ ui' = [ui EXCEPT !.userInput = input, !.showInputDialog = FALSE,
                        !.output = Append(@, Line("input", <<"User input: ">> \o input))]
    /\ StartExecute(ui.language, input, ui.code, "submit")
    /\ UNCHANGED <<webVars, impl, execListeners, joins, resultSent, termVars>>

\* handleInputSubmit resumes with the result of call c
SubmitResumes(c) ==
    /\ calls[c].origin = "submit"
    /\ calls[c].settled
    /\ ~calls[c].resumed
    /\ calls' = [calls EXCEPT ![c].resumed = TRUE]
    /\ ui' = [ui EXCEPT
                 !.output = SelectSeq(@, LAMBDA l : l.type # "input-request")
                            \o calls[c].value,
                 !.isRunning = FALSE, !.needsInput = FALSE]
    /\ UNCHANGED <<webVars, impl, socket, ioCount, execListeners, joins, resultSent, termVars>>

\* The dialog is dismissed: onClose
DialogClose ==
    /\ ui.showInputDialog
    /\ ui' = [ui EXCEPT !.showInputDialog = FALSE,
                        !.isRunning = IF ui.needsInput THEN FALSE ELSE @,
                        !.needsInput = FALSE]
    /\ UNCHANGED <<webVars, impl, socket, ioCount, calls, execListeners, joins, resultSent,
                   termVars>>

\* The user edits the code: setCode
EditCode(code) ==
    /\ ~ui.showInputDialog
    /\ code # ui.code
    /\ ui' = [ui EXCEPT !.code = code]
    /\ UNCHANGED <<webVars, impl, socket, ioCount, calls, execListeners, joins, resultSent,
                   termVars>>

\* handleClearOutput
HandleClearOutput ==
    /\ ~ui.showInputDialog
    /\ ui.output # <<>>
    /\ ui' = [ui EXCEPT !.output = <<>>]
    /\ UNCHANGED <<webVars, impl, socket, ioCount, calls, execListeners, joins, resultSent,
                   termVars>>

----------------------------------------------------------------------------
(* Input universes *)

Languages == {"python", "javascript"}

CodePrintOnly == MkCode(TRUE, <<PrintArg("str", <<"a">>)>>, FALSE, <<>>)
CodeInputPrint == MkCode(TRUE, <<PrintArg("var", <<"x">>)>>, TRUE, <<"x">>)
CodeInputOnly == MkCode(FALSE, <<>>, TRUE, <<"x">>)
CodePlain == MkCode(FALSE, <<>>, FALSE, <<>>)

Codes == {CodePrintOnly, CodeInputPrint, CodeInputOnly, CodePlain}

Inputs == {<<>>, <<"5">>}

Messages == {<<>>, <<"boom">>}

MkResult(status, output, exitCode) ==
    [status |-> status, output |-> output, exitCode |-> exitCode]

\* The results of the protocol specification: few, told apart by their text
ProtoResults ==
    {MkResult("success", <<"a", Newline, "b">>, 0),
     MkResult("error", <<>>, 1)}

\* The results of the normalisation specification: every text up to MaxLen
Alphabet == {"a", "b", " ", Newline, Banner}

AllResults ==
    {MkResult("success", out, ec) : out \in Texts(Alphabet, MaxLen), ec \in {0, 1}}
    \cup {MkResult("error", out, 1) : out \in Texts(Alphabet, MaxLen)}

AllResponses == Responses(AllResults, Messages)

----------------------------------------------------------------------------
(* window.localStorage, as code-storage-service.ts and auth-service.ts use it *)

\* what getItem returns for a key that is not stored: null
NoItem == <<"null">>

EmptyStorage == [k \in {} |-> <<>>]

GetItem(store, key) == IF key \in DOMAIN store THEN store[key] ELSE NoItem

SetItem(store, key, value) ==
    [k \in DOMAIN store \cup {key} |-> IF k = key THEN value ELSE store[k]]

RemoveItem(store, key) == [k \in DOMAIN store \ {key} |-> store[k]]

\* !value, for a string or null
Falsy(value) == value = NoItem \/ value = <<>>

----------------------------------------------------------------------------
(* code-storage-service.ts: saveCodeSnippet *)

STORAGE_PREFIX == "code-"

\* `${STORAGE_PREFIX}${language}`
CodeKey(language) == <<STORAGE_PREFIX, language>>

\* the `user` argument: null for an anonymous user, otherwise the user's id
NoUser == "null"

\* the POST /api/code request of saveToDatabase, made by the call `by`
SaveRequest(userId, language, code, by) ==
    [url |-> <<"/api/code">>, body |-> <<userId, language, code>>, by |-> by]

\* saveToLocalStorage without its try/catch: a throwing setItem leaves the function
SaveToLocalStorageUncaught(store, language, code, full) ==
    [store |-> IF full THEN store ELSE SetItem(store, CodeKey(language), code),
     thrown |-> full]

\* saveToLocalStorage(language, code): setItem under the language key; `full` is a
\* setItem that throws (quota exceeded, storage disabled), which is logged and swallowed
SaveToLocalStorage(store, language, code, full) ==
    [store |-> IF full THEN store ELSE SetItem(store, CodeKey(language), code),
     thrown |-> FALSE]

NewSave(language, code, user) ==
    [language |-> language, code |-> code, user |-> user, state |-> "pending",
     pc |-> "fetch", resp |-> "none", error |-> <<>>, local |-> FALSE, full |-> FALSE]

\* the catch block of saveCodeSnippet for the call v: the error is logged and the
\* code goes to saveToLocalStorage; the promise settles with what that call does
SaveCaught(v, error, full) ==
    LET r == SaveToLocalStorage(localStorage, v.language, v.code, full) IN
    [store |-> r.store,
     save |-> [v EXCEPT !.state = IF r.thrown THEN "rejected" ELSE "resolved",
                        !.pc = "done", !.error = error, !.local = TRUE, !.full = full]]

\* saveCodeSnippet(language, code, user) up to its first await
SaveCodeSnippet(language, code, user, full) ==
    /\ Len(saves) < MaxSaves
    /\ IF user # NoUser
       THEN /\ ~full
            /\ requests' = Append(requests,
                                  SaveRequest(user, language, code, Len(saves) + 1))
            /\ saves' = Append(saves, NewSave(language, code, user))
            /\ UNCHANGED localStorage
       ELSE LET r == SaveToLocalStorage(localStorage, language, code, full)
                v == [NewSave(language, code, user) EXCEPT !.local = TRUE, !.full = full]
                c == SaveCaught(v, <<"setItem">>, full)
            IN  /\ localStorage' = IF r.thrown THEN c.store ELSE r.store
                /\ saves' = Append(saves, IF r.thrown THEN c.save
                                          ELSE [v EXCEPT !.state = "resolved",
                                                         !.pc = "done"])
                /\ UNCHANGED requests
    /\ UNCHANGED <<callbacks, authImpl, impl, socket, ioCount, calls, execListeners,
                   joins, resultSent, ui, termVars>>

SaveOutcomes == {"ok", "status", "network"}

\* the fetch of saveToDatabase settles for the call s: a 2xx answer ends the call,
\* another answer goes on to response.json(), a rejection goes to the catch block
SaveResponds(s, r, full) ==
    /\ s \in 1..Len(saves)
    /\ saves[s].pc = "fetch"
    /\ r \in SaveOutcomes
    /\ LET v == [saves[s] EXCEPT !.resp = r] IN
       CASE r = "ok" ->
              /\ ~full
              /\ saves' = [saves EXCEPT ![s] = [v EXCEPT !.state = "resolved",
                                                         !.pc = "done"]]
              /\ UNCHANGED localStorage
         [] r = "status" ->
              /\ ~full
              /\ saves' = [saves EXCEPT ![s] = [v EXCEPT !.pc = "json"]]
              /\ UNCHANGED localStorage
         [] r = "network" ->
              LET c == SaveCaught(v, <<"Failed to fetch">>, full) IN
              /\ saves' = [saves EXCEPT ![s] = c.save]
              /\ localStorage' = c.store
    /\ UNCHANGED <<requests, callbacks, authImpl, impl, socket, ioCount, calls,
                   execListeners, joins, resultSent, ui, termVars>>

ErrorBodies == {"error", "empty", "garbage"}

\* errorData.error || fallback, or the SyntaxError of a body that is not JSON
ErrorOf(body, fallback) ==
    CASE body = "error" -> <<"backend error">>
      [] body = "empty" -> fallback
      [] body = "garbage" -> <<"SyntaxError">>

\* response.json() of the non-2xx answer settles for the call s: whatever the body,
\* saveToDatabase throws and the catch block of saveCodeSnippet runs
SaveErrorBody(s, body, full) ==
    /\ s \in 1..Len(saves)
    /\ saves[s].pc = "json"
    /\ body \in ErrorBodies
    /\ LET c == SaveCaught(saves[s],
                           ErrorOf(body, <<"Failed to save code to database">>), full)
       IN  /\ saves' = [saves EXCEPT ![s] = c.save]
           /\ localStorage' = c.store
    /\ UNCHANGED <<requests, callbacks, authImpl, impl, socket, ioCount, calls,
                   execListeners, joins, resultSent, ui, termVars>>

----------------------------------------------------------------------------
(* auth-service.ts: the OAuth state and handleAuthCallback *)

USER_STORAGE_KEY == <<"online-compiler-user">>

TOKEN_STORAGE_KEY == <<"online-compiler-token">>

Providers == {"github", "google"}

\* `auth-state-${provider}`
AuthStateKey(provider) == <<"auth-state-", provider>>

\* Math.random().toString(36).substring(2, 15): the empty string when
\* Math.random() returns 0
IssuedStates == {<<>>, <<"s1">>}

\* the state parameter of a callback URL: any string, issued or not
GivenStates == IssuedStates \cup {<<"s2">>}

InvalidState == <<"Invalid state parameter. Authentication failed.">>

\* the POST /api/auth/<provider> request of handleAuthCallback, made by the call `by`
AuthRequest(provider, code, by) ==
    [url |-> <<"/api/auth/", provider>>, body |-> <<code>>, by |-> by]

\* generateRandomState(provider), as loginWithGithub and loginWithGoogle call it:
\* the new state replaces the one stored for the provider; a throwing setItem
\* leaves the function, and the login, with nothing stored
GenerateRandomState(provider, state, full) ==
    /\ provider \in Providers
    /\ localStorage' = IF full THEN localStorage
                       ELSE SetItem(localStorage, AuthStateKey(provider), state)
    /\ UNCHANGED <<requests, saves, callbacks, authImpl, impl, socket, ioCount, calls,
                   execListeners, joins, resultSent, ui, termVars>>

\* the test of handleAuthCallback without the comparison with the given state
StateRejectedIfMissing(savedState, state) == Falsy(savedState)

\* !savedState || savedState !== state
StateRejected(savedState, state) == Falsy(savedState) \/ savedState # state

NewCallback(provider, code, state, savedState) ==
    [provider |-> provider, code |-> code, state |-> state, saved |-> savedState,
     status |-> "pending", pc |-> "done", error |-> <<>>]

\* handleAuthCallback(provider, code, state) up to its first await: the state test
\* throws before anything else; otherwise the "api" half posts the code to the
\* backend and the "mock" half starts its 800 ms timer
HandleAuthCallback(provider, code, state) ==
    /\ Len(callbacks) < MaxCallbacks
    /\ LET savedState == GetItem(localStorage, AuthStateKey(provider))
           v == NewCallback(provider, code, state, savedState)
       IN  IF StateRejected(savedState, state)
           THEN /\ callbacks' = Append(callbacks, [v EXCEPT !.status = "rejected",
                                                            !.error = InvalidState])
                /\ UNCHANGED requests
           ELSE IF authImpl = "api"
                THEN /\ requests' = Append(requests,
                                           AuthRequest(provider, code, Len(callbacks) + 1))
                     /\ callbacks' = Append(callbacks, [v EXCEPT !.pc = "fetch"])
                ELSE /\ callbacks' = Append(callbacks, [v EXCEPT !.pc = "timer"])
                     /\ UNCHANGED requests
    /\ UNCHANGED <<localStorage, saves, authImpl, impl, socket, ioCount, calls,
                   execListeners, joins, resultSent, ui, termVars>>

AuthOutcomes == {"ok", "status", "network"}

\* the fetch of handleAuthCallback settles for the call k: a rejection is logged and
\* rethrown, an answer goes on to response.json()
AuthResponds(k, r) ==
    /\ k \in 1..Len(callbacks)
    /\ callbacks[k].pc = "fetch"
    /\ r \in AuthOutcomes
    /\ callbacks' = [callbacks EXCEPT ![k] =
           CASE r = "ok" -> [@ EXCEPT !.pc = "data"]
             [] r = "status" -> [@ EXCEPT !.pc = "json"]
             [] r = "network" -> [@ EXCEPT !.status = "rejected", !.pc = "done",
                                           !.error = <<"Failed to fetch">>]]
    /\ UNCHANGED <<localStorage, requests, saves, authImpl, impl, socket, ioCount,
                   calls, execListeners, joins, resultSent, ui, termVars>>

\* response.json() of the non-2xx answer settles for the call k: the call rejects
\* with errorData.error || `${provider} authentication failed`
AuthErrorBody(k, body) ==
    /\ k \in 1..Len(callbacks)
    /\ callbacks[k].pc = "json"
    /\ body \in ErrorBodies
    /\ callbacks' = [callbacks EXCEPT ![k] =
           [@ EXCEPT !.status = "rejected", !.pc = "done",
                     !.error = ErrorOf(body, <<callbacks[k].provider,
                                                    " authentication failed">>)]]
    /\ UNCHANGED <<localStorage, requests, saves, authImpl, impl, socket, ioCount,
                   calls, execListeners, joins, resultSent, ui, termVars>>

\* JSON.stringify(data.user) and data.token of the call k
UserOf(k) == <<"user", callbacks[k].provider>>

TokenOf(k) == <<"token", ToString(k)>>

\* the two setItem calls that store the user and the token; `full` is a first
\* setItem that throws, which rejects the call with nothing stored
StoreLogin(k, full) ==
    /\ localStorage' =
           IF full THEN localStorage
           ELSE SetItem(SetItem(localStorage, USER_STORAGE_KEY, UserOf(k)),
                        TOKEN_STORAGE_KEY, TokenOf(k))
    /\ callbacks' = [callbacks EXCEPT ![k] =
           IF full THEN [@ EXCEPT !.status = "rejected", !.pc = "done",
                                  !.error = <<"QuotaExceededError">>]
           ELSE [@ EXCEPT !.status = "resolved", !.pc = "done"]]

\* response.json() of the 2xx answer settles for the call k
AuthData(k, body, full) ==
    /\ k \in 1..Len(callbacks)
    /\ callbacks[k].pc = "data"
    /\ body \in {"data", "garbage"}
    /\ IF body = "garbage"
       THEN /\ ~full
            /\ callbacks' = [callbacks EXCEPT ![k] =
                   [@ EXCEPT !.status = "rejected", !.pc = "done",
                             !.error = <<"SyntaxError">>]]
            /\ UNCHANGED localStorage
       ELSE StoreLogin(k, full)
    /\ UNCHANGED <<requests, saves, authImpl, impl, socket, ioCount, calls,
                   execListeners, joins, resultSent, ui, termVars>>

\* the 800 ms timer of the "mock" half runs for the call k
AuthTimerFires(k, full) ==
    /\ k \in 1..Len(callbacks)
    /\ callbacks[k].pc = "timer"
    /\ StoreLogin(k, full)
    /\ UNCHANGED <<requests, saves, authImpl, impl, socket, ioCount, calls,
                   execListeners, joins, resultSent, ui, termVars>>

\* logout()
Logout ==
    /\ localStorage' = RemoveItem(RemoveItem(localStorage, USER_STORAGE_KEY),
                                  TOKEN_STORAGE_KEY)
    /\ UNCHANGED <<requests, saves, callbacks, authImpl, impl, socket, ioCount, calls,
                   execListeners, joins, resultSent, ui, termVars>>

InitUI ==
    [language |-> "python", code |-> CodePlain, output |-> <<>>, isRunning |-> FALSE,
     userInput |-> <<>>, showInputDialog |-> FALSE, needsInput |-> FALSE]

InitComp ==
    [mounted |-> FALSE, instance |-> 0, language |-> "", sessionId |-> 0,
     isConnected |-> FALSE, isLoading |-> FALSE, cleanupSid |-> 0, handler |-> 0,
     output |-> <<>>]

----------------------------------------------------------------------------
(* Spec: the execution protocol with overlapping calls *)

Init ==
    /\ impl \in {"ds", "cr"}
    /\ socket = 0
    /\ ioCount = 0
    /\ calls = <<>>
    /\ execListeners = <<>>
    /\ joins = <<>>
    /\ resultSent = {}
    /\ ui = InitUI
    /\ creates = <<>>
    /\ createdListeners = <<>>
    /\ errorListeners = <<>>
    /\ handlers = <<>>
    /\ termEmits = <<>>
    /\ chunks = <<>>
    /\ backend = [answered |-> 0, sessions |-> 0, reachable |-> TRUE, attempts |-> 0,
                  langs |-> <<>>]
    /\ comp = InitComp
    /\ localStorage = <<>>
    /\ requests = <<>>
    /\ saves = <<>>
    /\ callbacks = <<>>
    /\ authImpl = "api"

Next ==
    \/ \E i \in Inputs : ExecuteCode("python", i, CodePlain)
    \/ \E c \in Fetching, r \in Responses(ProtoResults, {<<"boom">>}) :
          FetchResponds(c, r)
    \/ \E x \in Deliverable, r \in ProtoResults : DeliverResult(x, r)
    \/ \E c \in 1..Len(calls) : TimerFires(c)

Spec == Init /\ [][Next]_vars

----------------------------------------------------------------------------
(* SpecNorm: one executeCode call over every code, input, response and    *)
(* result text up to MaxLen                                                *)

NextNorm ==
    \/ Len(calls) = 0 /\ \E l \in Languages, i \in Inputs, k \in Codes : ExecuteCode(l, i, k)
    \/ \E c \in Fetching, r \in AllResponses : FetchResponds(c, r)
    \/ \E x \in Deliverable, r \in AllResults : DeliverResult(x, r)
    \/ \E c \in 1..Len(calls) : TimerFires(c)

SpecNorm == Init /\ [][NextNorm]_vars

----------------------------------------------------------------------------
(* SpecTerm: session creation, called by any caller *)

SessionIds == {1, 2}
TypedTexts == {<<" ">>, <<"a">>}

\* The text of the next chunk the backend streams: chunks are told apart by
\* their position in the stream
NextChunk == <<"chunk", ToString(Len(chunks) + 1)>>

NextTerm ==
    \/ CreateTerminalSession("python")
    \/ TerminalCreated
    \/ \E m \in Messages : TerminalError(m)
    \/ \E k \in 1..Len(creates) : CreateTimerFires(k)

SpecTerm == Init /\ [][NextTerm]_vars

----------------------------------------------------------------------------
(* SpecOutput: output listeners on the sessions the backend created *)

NextOutput ==
    \/ CreateTerminalSession("python")
    \/ TerminalCreated
    \/ \E sid \in SessionIds : OnTerminalOutput(sid)
    \/ \E h \in 1..Len(handlers) : Unsubscribe(h)
    \/ \E sid \in SessionIds : TerminalOutput(sid, NextChunk)

SpecOutput == Init /\ [][NextOutput]_vars

----------------------------------------------------------------------------
(* SpecComp: the InteractiveTerminal component and the backend *)

NextComp ==
    \/ \E l \in Languages : Mount(l)
    \/ \E k \in 1..Len(creates) : InitTerminalResumes(k)
    \/ \E l \in Languages : ChangeLanguage(l)
    \/ Unmount
    \/ \E t \in TypedTexts : HandleSubmit(t)
    \/ Resized(640, 384)
    \/ TerminalCreated
    \/ TerminalError(<<>>)
    \/ \E k \in 1..Len(creates) : CreateTimerFires(k)
    \/ \E sid \in SessionIds : TerminalOutput(sid, NextChunk)

SpecComp == Init /\ [][NextComp]_vars

----------------------------------------------------------------------------
(* SpecInput: the InteractiveTerminal component, its sessions and the       *)
(* commands typed into it                                                   *)

NextInput ==
    \/ Mount("python")
    \/ \E k \in 1..Len(creates) : InitTerminalResumes(k)
    \/ \E l \in Languages : ChangeLanguage(l)
    \/ Unmount
    \/ \E t \in TypedTexts : HandleSubmit(t)
    \/ TerminalCreated
    \/ TerminalError(<<>>)
    \/ \E k \in 1..Len(creates) : CreateTimerFires(k)

SpecInput == Init /\ [][NextInput]_vars

----------------------------------------------------------------------------
(* SpecEditor: the DockerCodeEditor component, the module and the backend *)

NextEditor ==
    \/ HandleRunCode
    \/ \E c \in 1..Len(calls) : RunResumes(c)
    \/ \E i \in Inputs : HandleInputSubmit(i)
    \/ \E c \in 1..Len(calls) : SubmitResumes(c)
    \/ DialogClose
    \/ \E k \in {CodePlain, CodeInputOnly} : EditCode(k)
    \/ HandleClearOutput
    \/ \E c \in Fetching, r \in Responses(ProtoResults, {<<"boom">>}) :
          FetchResponds(c, r)
    \/ \E x \in Deliverable, r \in ProtoResults : DeliverResult(x, r)
    \/ \E c \in 1..Len(calls) : TimerFires(c)

SpecEditor == Init /\ [][NextEditor]_vars

----------------------------------------------------------------------------
(* SpecLib: every exported function of the module, in any interleaving *)

LibCalls == Len(calls) + Len(creates) + Len(handlers) + LibEmits

LibBudget == LibCalls < MaxLibCalls

LibResult == MkResult("success", <<"a">>, 0)

LibResponses ==
    {Response("http", TRUE, "id", <<>>, NoResult),
     Response("http", TRUE, "result", <<>>, LibResult)}

NextLib ==
    \/ LibBudget /\ ExecuteCode("python", <<>>, CodeInputPrint)
    \/ LibBudget /\ CreateTerminalSession("python")
    \/ LibBudget /\ OnTerminalOutput(1)
    \/ LibBudget /\ SendTerminalInput(1, <<"a", Newline>>)
    \/ LibBudget /\ ResizeTerminal(1, 80, 24)
    \/ LibBudget /\ CloseTerminalSession(1)
    \/ \E h \in 1..Len(handlers) : Unsubscribe(h)
    \/ \E c \in Fetching, r \in LibResponses : FetchResponds(c, r)
    \/ \E x \in Deliverable : DeliverResult(x, LibResult)
    \/ \E c \in 1..Len(calls) : TimerFires(c)
    \/ TerminalCreated
    \/ TerminalError(<<>>)
    \/ \E k \in 1..Len(creates) : CreateTimerFires(k)
    \/ TerminalOutput(1, NextChunk)

SpecLib == Init /\ [][NextLib]_vars

----------------------------------------------------------------------------
(* SpecOffline: executeCode and createTerminalSession while the socket      *)
(* cannot reach the backend; the HTTP request may still be answered         *)

InitOffline ==
    /\ impl \in {"ds", "cr"}
    /\ socket = 0
    /\ ioCount = 0
    /\ calls = <<>>
    /\ execListeners = <<>>
    /\ joins = <<>>
    /\ resultSent = {}
    /\ ui = InitUI
    /\ creates = <<>>
    /\ createdListeners = <<>>
    /\ errorListeners = <<>>
    /\ handlers = <<>>
    /\ termEmits = <<>>
    /\ chunks = <<>>
    /\ backend = [answered |-> 0, sessions |-> 0, reachable |-> FALSE, attempts |-> 0,
                  langs |-> <<>>]
    /\ comp = InitComp
    /\ localStorage = <<>>
    /\ requests = <<>>
    /\ saves = <<>>
    /\ callbacks = <<>>
    /\ authImpl = "api"

OfflineResponses ==
    {Response("network", FALSE, "none", <<>>, NoResult),
     Response("http", TRUE, "id", <<>>, NoResult)}

NextOffline ==
    \/ ExecuteCode("python", <<>>, CodePlain)
    \/ \E c \in Fetching, r \in OfflineResponses : FetchResponds(c, r)
    \/ \E c \in 1..Len(calls) : TimerFires(c)
    \/ CreateTerminalSession("python")
    \/ \E k \in 1..Len(creates) : CreateTimerFires(k)
    \/ ConnectError

SpecOffline == InitOffline /\ [][NextOffline]_vars

----------------------------------------------------------------------------
(* SpecLive: executeCode over every kind of fetch outcome and over          *)
(* well-formed and malformed results; the event loop runs every timer       *)
(* callback that is due and every fetch settles                             *)

LiveResults == {MkResult("success", Undefined, 0), MkResult("error", Undefined, 1)}

LiveResponses == Responses(LiveResults, {<<"boom">>})

NextLive ==
    \/ ExecuteCode("python", <<>>, CodePlain)
    \/ \E c \in Fetching, r \in LiveResponses : FetchResponds(c, r)
    \/ \E x \in Deliverable, r \in LiveResults : DeliverResult(x, r)
    \/ \E c \in 1..Len(calls) : TimerFires(c)

FetchSettles(c) == c \in Fetching /\ \E r \in LiveResponses : FetchResponds(c, r)

TimerRuns(c) == c \in 1..Len(calls) /\ TimerFires(c)

SpecLive ==
    /\ Init
    /\ [][NextLive]_vars
    /\ \A c \in 1..MaxCalls : WF_vars(FetchSettles(c)) /\ WF_vars(TimerRuns(c))

----------------------------------------------------------------------------
(* Claims about the execution protocol *)

IsWaiter(c) == calls[c].path = "deferred"

FirstCallback(c) == Head(calls[c].hist)

\* C1: a call that waits for the deferred result of execution X is never
\* resolved by the execution_result of another execution Y: whenever the
\* result listener of a call is what settled it, the event it was given
\* belongs to the call's own execution id.
C1_ResolvedByOwnResultOnly ==
    \A c \in 1..Len(calls) :
        (IsWaiter(c) /\ calls[c].execId # 0
         /\ calls[c].hist # <<>> /\ FirstCallback(c) = "result")
            => calls[c].gotExec = calls[c].execId

\* C2: when the 30 s timer of a waiting call fires before any
\* execution_result reached its listener, the call is resolved with exactly
\* the one error line 'Execution timed out', and stays so when a result is
\* delivered afterwards.
C2_TimeoutThenLateResultIsNoOp ==
    \A c \in 1..Len(calls) :
        (IsWaiter(c) /\ calls[c].hist # <<>> /\ FirstCallback(c) = "timer")
            => /\ calls[c].settled
               /\ calls[c].value = <<[type |-> "error", content |-> <<"Execution timed out">>]>>

\* C2 witness: a call timed out and its listener then ran with a late result
C2_LateResultDelivered ==
    \E c \in 1..Len(calls) : IsWaiter(c) /\ calls[c].hist = <<"timer", "result">>

\* C3: a waiting call has exactly one outcome, that of the callback that ran
\* first: the lines rendered from the result its listener was given when the
\* listener ran before the timer (the timer firing later changes nothing),
\* the timeout line alone when the timer ran first, and none while neither ran.
C3_ExactlyOneOutcome ==
    \A c \in 1..Len(calls) :
        IsWaiter(c) =>
            /\ calls[c].settled <=> calls[c].hist # <<>>
            /\ (calls[c].hist # <<>> /\ FirstCallback(c) = "result")
                  => /\ calls[c].value =
                          DeferredLines(impl, calls[c].lang, calls[c].input, calls[c].got)
                     /\ \A i \in 1..Len(calls[c].value) :
                          calls[c].value[i].content # <<"Execution timed out">>
            /\ (calls[c].hist # <<>> /\ FirstCallback(c) = "timer")
                  => calls[c].value = TimeoutLines

\* C3 witness: the result arrived first and the pending timer fired later
C3_TimerFiredAfterResult ==
    \E c \in 1..Len(calls) : IsWaiter(c) /\ calls[c].hist = <<"result", "timer">>

\* The lines the specification prescribes for an inline result
PrescribedInline(language, input, result) ==
    <<[type |-> "command", content |-> <<"Running ", language, " code...">>]>>
    \o (IF input # <<>> THEN <<[type |-> "input", content |-> input]>> ELSE <<>>)
    \o (IF result.status = "success"
        THEN StandardLines(result.output)
             \o <<[type |-> "success",
                   content |-> <<"Program exited with code ", ToString(result.exitCode)>>]>>
        ELSE <<[type |-> "error",
                content |-> IF result.output # <<>> THEN result.output
                            ELSE <<"Execution failed">>]>>)

GotInline(c) == calls[c].resp.shape = "result"

\* C8: a call whose response carried an inline result with status success
\* returns the command line, the input line iff stdin is non-empty, one
\* standard line per non-blank output line in order, and the success line.
C8_InlineSuccessLines ==
    \A c \in 1..Len(calls) :
        (GotInline(c) /\ calls[c].resp.result.status = "success" /\ calls[c].settled)
            => calls[c].value =
                   PrescribedInline(calls[c].lang, calls[c].input, calls[c].resp.result)

\* C9: a call whose response carried an inline result with a non-success
\* status returns the command line, the input line iff stdin is non-empty,
\* and one error line with the result's output or 'Execution failed'.
C9_InlineFailureLines ==
    \A c \in 1..Len(calls) :
        (GotInline(c) /\ calls[c].resp.result.status # "success" /\ calls[c].settled)
            => calls[c].value =
                   PrescribedInline(calls[c].lang, calls[c].input, calls[c].resp.result)

\* C10: a call whose response directly contained a result emits no
\* join_execution, registers no execution_result listener, starts no 30 s
\* timer, and never ends in 'Execution timed out'.
C10_InlineNeverWaits ==
    \A c \in 1..Len(calls) :
        GotInline(c) =>
            /\ ~calls[c].joined
            /\ calls[c].timer = "none"
            /\ ~InSeq(execListeners, c)
            /\ calls[c].value # TimeoutLines

\* The client of code-runner.ts alone meets C8 and C10
InCodeRunner == impl = "cr"

C8_InlineSuccessLinesInCodeRunner == InCodeRunner => C8_InlineSuccessLines

C10_InlineNeverWaitsInCodeRunner == InCodeRunner => C10_InlineNeverWaits

----------------------------------------------------------------------------
(* Claims about terminal sessions *)

\* The outputs of the chunks of session sid among chunks[lo+1..hi]
OutputsFor(sid, lo, hi) ==
    LET tagged == SelectSeq(SubSeq(chunks, lo + 1, hi), LAMBDA d : d.sessionId = sid)
    IN [i \in 1..Len(tagged) |-> tagged[i].output]

\* C4: the callback registered through onTerminalOutput(A, ...) receives
\* exactly the chunks tagged A that were delivered while it was registered,
\* in delivery order, and so never a chunk tagged with another session.
C4_SessionIsolation ==
    \A h \in 1..Len(handlers) :
        handlers[h].got =
            OutputsFor(handlers[h].sid, handlers[h].from,
                       IF handlers[h].on THEN Len(chunks) ELSE handlers[h].upto)

\* C4 witness: listeners of two sessions are registered, chunks of both
\* sessions were delivered after that, and each listener received its own
C4_TwoSessionsStreamed ==
    \E a, b \in 1..Len(handlers) :
        /\ handlers[a].on /\ handlers[b].on
        /\ handlers[a].sid # handlers[b].sid
        /\ handlers[a].got # <<>> /\ handlers[b].got # <<>>

\* C5: once the InteractiveTerminal has unmounted while it held the created
\* session S, terminal_close_S has been emitted.
C5_UnmountClosesHeldSession ==
    (~comp.mounted /\ comp.sessionId # 0)
        => \E i \in 1..Len(termEmits) :
              termEmits[i].ev = "terminal_close" /\ termEmits[i].sid = comp.sessionId

\* C6: the module constructs at most one socket connection, and every call
\* of executeCode, createTerminalSession, sendTerminalInput, resizeTerminal,
\* closeTerminalSession and onTerminalOutput used that one handle.
C6_SingleConnection ==
    /\ ioCount <= 1
    /\ \A c \in 1..Len(calls) : calls[c].sock \in {0, socket}
    /\ \A k \in 1..Len(creates) : creates[k].sock = socket
    /\ \A h \in 1..Len(handlers) : handlers[h].sock = socket
    /\ \A i \in 1..Len(termEmits) : termEmits[i].sock = socket

\* C6 witness: three different functions of the module have been called
C6_SeveralFunctionsCalled ==
    /\ Len(calls) > 0 /\ calls[1].sock # 0
    /\ Len(handlers) > 0
    /\ LibEmits > 0

----------------------------------------------------------------------------
(* Claims about the editor *)

Outstanding == {c \in 1..Len(calls) : ~calls[c].settled}

\* C7: the editor never has two executeCode calls outstanding: no run can
\* be started while the executeCode call of an earlier run is unresolved.
C7_OneExecutionInFlight == Cardinality(Outstanding) <= 1

----------------------------------------------------------------------------
(* Claims about the outcomes of executeCode *)

\* C11: the lines executeCode returns for a result contained inline in the
\* response are the lines it returns when the same result, for the same
\* language and stdin, arrives later as the execution_result of its execution.
C11_InlineEqualsDeferred ==
    \A c \in 1..Len(calls) :
        (calls[c].path = "inline" /\ calls[c].settled)
            => calls[c].value =
                   DeferredLines(impl, calls[c].lang, calls[c].input, calls[c].resp.result)

GotHttpError(c) ==
    calls[c].resp.kind = "http" /\ ~calls[c].resp.ok /\ calls[c].resp.shape = "error"

HasLine(lines, type, content) ==
    \E i \in 1..Len(lines) : lines[i].type = type /\ lines[i].content = content

\* C12: a call whose request was answered with a non-2xx status and the
\* body {error: msg} returns, without waiting for a deferred result, an
\* error line whose content is msg (or the request-failure message when msg
\* is empty), and never the line 'Execution timed out'.
C12_RequestFailureReported ==
    \A c \in 1..Len(calls) :
        GotHttpError(c) =>
            /\ calls[c].path # "deferred"
            /\ calls[c].settled
            /\ HasLine(calls[c].value, "error",
                       IF calls[c].resp.msg # <<>> THEN calls[c].resp.msg
                       ELSE <<"Failed to execute code">>)
            /\ ~HasLine(calls[c].value, "error", <<"Execution timed out">>)

GotGarbage(c) == calls[c].resp.kind = "http" /\ calls[c].resp.shape = "garbage"

\* C13: a call whose response body could not be parsed as JSON returns an
\* error line with the content 'Server error: Could not parse response',
\* no line carrying the 'Execution failed' fallback, and waits for no
\* deferred result.
C13_ParseFailureReported ==
    \A c \in 1..Len(calls) :
        GotGarbage(c) =>
            /\ calls[c].path # "deferred"
            /\ calls[c].settled
            /\ HasLine(calls[c].value, "error", <<"Server error: Could not parse response">>)
            /\ ~HasLine(calls[c].value, "error", <<"Execution failed">>)

\* The client of docker-service.ts alone meets C12, that of code-runner.ts C13
InDockerService == impl = "ds"

C12_RequestFailureReportedInDockerService == InDockerService => C12_RequestFailureReported

C13_ParseFailureReportedInCodeRunner == InCodeRunner => C13_ParseFailureReported

\* C14: whatever the fetch of a call ends in (network error, non-2xx status,
\* unparseable body, malformed result) and whatever the socket delivers, the
\* promise executeCode returned is eventually resolved with display lines.
C14_AlwaysResolved ==
    \A c \in 1..MaxCalls :
        (Len(calls) >= c) ~> (Len(calls) >= c /\ calls[c].settled)

\* C14 witness: the listener of a waiting call threw on a malformed result
\* and the call was resolved afterwards
C14_ResolvedAfterMalformedResult ==
    \E c \in 1..Len(calls) :
        calls[c].hist = <<"threw", "timer">> /\ calls[c].settled

----------------------------------------------------------------------------
(* Claims about session creation and output listeners *)

FirstEvent(k) == Head(creates[k].hist)

\* C15: when the 10 s timer of a createTerminalSession call fires before a
\* terminal_created or terminal_error event reached the call, the promise
\* is rejected with 'Terminal creation timed out'; no call is pending once
\* its timer has fired.
C15_CreationTimesOut ==
    \A k \in 1..Len(creates) :
        /\ creates[k].timer = "fired" => creates[k].state # "pending"
        /\ (creates[k].hist # <<>> /\ FirstEvent(k).kind = "timer")
              => /\ creates[k].state = "rejected"
                 /\ creates[k].message = <<"Terminal creation timed out">>

\* C15 witness: the timer of a call fired and no event has reached the call
C15_TimedOutWithoutEvent ==
    \E k \in 1..Len(creates) :
        Len(creates[k].hist) = 1 /\ FirstEvent(k).kind = "timer"

\* The outcome the first event of a call prescribes
PrescribedOutcome(e) ==
    CASE e.kind = "created" -> [state |-> "resolved", sid |-> e.sid, message |-> <<>>]
      [] e.kind = "error" ->
            [state |-> "rejected", sid |-> 0,
             message |-> IF e.message # <<>> THEN e.message
                         ELSE <<"Failed to create terminal session">>]
      [] OTHER ->
            [state |-> "rejected", sid |-> 0, message |-> <<"Terminal creation timed out">>]

Outcome(k) ==
    [state |-> creates[k].state, sid |-> creates[k].sid, message |-> creates[k].message]

CreateEmits == SelectSeq(termEmits, LAMBDA e : e.ev = "terminal_create")

\* C16: every createTerminalSession call emitted terminal_create once, is
\* pending while none of its three callbacks has run, and otherwise has the
\* outcome of the callback that ran first, whatever ran after it.
C16_FirstEventWins ==
    /\ Len(CreateEmits) = Len(creates)
    /\ \A k \in 1..Len(creates) :
          IF creates[k].hist = <<>>
          THEN creates[k].state = "pending"
          ELSE Outcome(k) = PrescribedOutcome(FirstEvent(k))

\* C16 witness: an event of another kind reached a call after it settled
C16_LaterEventOfOtherKind ==
    \E k \in 1..Len(creates) :
        /\ Len(creates[k].hist) >= 2
        /\ creates[k].hist[2].kind # FirstEvent(k).kind

\* The outputs of the chunks delivered in this step that are tagged sid
NewOutputsFor(sid) ==
    LET new == SubSeq(chunks', Len(chunks) + 1, Len(chunks'))
        tagged == SelectSeq(new, LAMBDA d : d.sessionId = sid)
    IN [i \in 1..Len(tagged) |-> tagged[i].output]

\* C17: a listener that was removed through the function onTerminalOutput
\* returned is never invoked again; the step that removes it changes no
\* other listener; and a listener that stays registered receives exactly
\* the chunks of its session delivered in the step.
C17_UnsubscribeRemovesOne ==
    [][\A h \in 1..Len(handlers) :
          /\ ~handlers[h].on => handlers'[h] = handlers[h]
          /\ (handlers[h].on /\ ~handlers'[h].on)
                => \A g \in (1..Len(handlers)) \ {h} : handlers'[g] = handlers[g]
          /\ (handlers[h].on /\ handlers'[h].on)
                => handlers'[h].got = handlers[h].got \o NewOutputsFor(handlers[h].sid)]_vars

\* C17 witness: of two listeners of one session, one was removed, and a
\* chunk of the session delivered after that reached only the other
C17_OtherListenerStillServed ==
    \E h, g \in 1..Len(handlers) :
        /\ ~handlers[h].on /\ handlers[g].on
        /\ handlers[h].sid = handlers[g].sid
        /\ handlers[g].from <= handlers[h].upto
        /\ \E i \in (handlers[h].upto + 1)..Len(chunks) :
              /\ chunks[i].sessionId = handlers[h].sid
              /\ InSeq(handlers[g].got, chunks[i].output)
              /\ ~InSeq(handlers[h].got, chunks[i].output)

----------------------------------------------------------------------------
(* Claims about the connection *)

\* C18: while the socket cannot reach the backend, no createTerminalSession
\* call and no waiting executeCode call ends in the timeout of its timer:
\* they fail earlier, with an error that names the connection.
C18_ConnectionFailureFailsFast ==
    ~backend.reachable =>
        /\ \A k \in 1..Len(creates) :
              creates[k].message # <<"Terminal creation timed out">>
        /\ \A c \in 1..Len(calls) :
              ~HasLine(calls[c].value, "error", <<"Execution timed out">>)

----------------------------------------------------------------------------
(* Claims about normalisation *)

IsControlLine(line) ==
    Includes(line.content, Banner) \/ Includes(line.content, PressEnter)

\* C19: no line executeCode returns, for a result delivered inline or
\* deferred, contains '** Process exited - Return Code:' or 'Press Enter to
\* exit terminal'.
C19_NoControlLines ==
    \A c \in 1..Len(calls) :
        \A i \in 1..Len(calls[c].value) : ~IsControlLine(calls[c].value[i])

\* The deferred path of code-runner.ts alone meets C19
C19_NoControlLinesDeferredInCodeRunner ==
    \A c \in 1..Len(calls) :
        (InCodeRunner /\ calls[c].path = "deferred")
            => \A i \in 1..Len(calls[c].value) : ~IsControlLine(calls[c].value[i])

ByResult(c) ==
    IsWaiter(c) /\ calls[c].hist # <<>> /\ FirstCallback(c) = "result"

SameRequest(c, d) ==
    calls[c].lang = calls[d].lang /\ calls[c].input = calls[d].input

----------------------------------------------------------------------------
(* Claims about the InteractiveTerminal component *)

\* The terminal_input events emitted in this step
NewInputs ==
    SelectSeq(SubSeq(termEmits', Len(termEmits) + 1, Len(termEmits')),
              LAMBDA e : e.ev = "terminal_input")

\* C21: a step of the component that emits terminal_input emits one event,
\* addressed to the session id the component holds, which the backend
\* created, carrying a typed text that is not blank followed by one newline;
\* the command is shown once and the step awaits nothing.
C21_InputToHeldSession ==
    [][NewInputs # <<>> =>
          /\ Len(NewInputs) = 1
          /\ comp.sessionId \in 1..backend.sessions
          /\ NewInputs[1].sid = comp.sessionId
          /\ \E t \in TypedTexts :
                /\ Trim(t) # <<>>
                /\ NewInputs[1].text = t \o <<Newline>>
                /\ comp'.output = Append(comp.output, <<"$ ">> \o t)]_vars

\* C21 witness: a command was sent to the session created after a language
\* change, the second session of the component
C21_CommandSentToSecondSession ==
    \E i \in 1..Len(termEmits) :
        /\ termEmits[i].ev = "terminal_input"
        /\ termEmits[i].sid = comp.sessionId
        /\ comp.sessionId = 2
        /\ termEmits[i].text = <<"a", Newline>>

----------------------------------------------------------------------------
(* Claims about the DockerCodeEditor component *)

\* C22: every executeCode call that handleRunCode makes itself, the input
\* dialog not being shown, passes the empty string as input.
C22_DirectRunSendsEmptyInput ==
    \A c \in 1..Len(calls) : calls[c].origin = "run" => calls[c].input = <<>>

----------------------------------------------------------------------------
(* Claims about the sessions of the InteractiveTerminal component *)

\* The events emitted in this step
NewEmits == SubSeq(termEmits', Len(termEmits) + 1, Len(termEmits'))

\* C23: the step in which the language prop of the mounted component
\* changes while it holds the session S emits terminal_close for S.
C23_LanguageChangeClosesSession ==
    [][(comp.mounted /\ comp'.mounted /\ comp'.language # comp.language
        /\ comp.sessionId # 0)
          => \E i \in 1..Len(NewEmits) :
                NewEmits[i].ev = "terminal_close" /\ NewEmits[i].sid = comp.sessionId]_vars

\* C24: two createTerminalSession calls never resolve to the same session
\* id: no terminal_created event resolves more than one call.
C24_CreationsDoNotShareSession ==
    \A j, k \in 1..Len(creates) :
        (j # k /\ creates[j].state = "resolved" /\ creates[k].state = "resolved")
            => creates[j].sid # creates[k].sid

\* C25: whenever the mounted component is not loading and reports
\* connected, the session id it holds is that of a session the backend
\* created for the current language prop.
C25_SessionMatchesLanguage ==
    (comp.mounted /\ ~comp.isLoading /\ comp.isConnected)
        => /\ comp.sessionId \in 1..Len(backend.langs)
           /\ backend.langs[comp.sessionId] = comp.language

----------------------------------------------------------------------------
(* Claims about the lines of one run *)

OfType(lines, type) == SelectSeq(lines, LAMBDA l : l.type = type)

\* C26: the lines executeCode returns hold at most one status line: at
\* most one success line or one error line, never both.
C26_SingleStatusLine ==
    \A c \in 1..Len(calls) :
        Len(OfType(calls[c].value, "success")) + Len(OfType(calls[c].value, "error")) <= 1

\* C27: when a run that went through the input dialog completes, the
\* output list then displayed holds exactly one command line and at most
\* one input line.
C27_OneRunOneCommandLine ==
    [][\A c \in 1..Len(calls) :
          (calls[c].origin = "submit" /\ ~calls[c].resumed /\ calls'[c].resumed)
              => /\ Len(OfType(ui'.output, "command")) = 1
                 /\ Len(OfType(ui'.output, "input")) <= 1]_vars

----------------------------------------------------------------------------
(* Claims about the listeners of executeCode *)

\* C28: the execution_result listener of a call that waited for a deferred
\* result and has been resolved, by a result or by the timeout, is no
\* longer registered on the socket.
C28_NoListenerAfterResolution ==
    \A c \in 1..Len(calls) :
        (IsWaiter(c) /\ calls[c].settled) => ~InSeq(execListeners, c)

\* A call resolved by its listener has no listener left
C28_NoListenerAfterResult ==
    \A c \in 1..Len(calls) :
        (IsWaiter(c) /\ calls[c].settled /\ FirstCallback(c) = "result")
            => ~InSeq(execListeners, c)

----------------------------------------------------------------------------
(* SpecStorage: saveCodeSnippet for anonymous and authenticated users, over   *)
(* every outcome of the database request and of localStorage.setItem          *)

InitStorage ==
    /\ impl = "ds"
    /\ socket = 0
    /\ ioCount = 0
    /\ calls = <<>>
    /\ execListeners = <<>>
    /\ joins = <<>>
    /\ resultSent = {}
    /\ ui = InitUI
    /\ creates = <<>>
    /\ createdListeners = <<>>
    /\ errorListeners = <<>>
    /\ handlers = <<>>
    /\ termEmits = <<>>
    /\ chunks = <<>>
    /\ backend = [answered |-> 0, sessions |-> 0, reachable |-> TRUE, attempts |-> 0,
                  langs |-> <<>>]
    /\ comp = InitComp
    /\ localStorage = EmptyStorage
    /\ requests = <<>>
    /\ saves = <<>>
    /\ callbacks = <<>>
    /\ authImpl = "api"

NextStorage ==
    \/ \E l \in Languages, c \in {<<"a">>, <<"b">>}, u \in {NoUser, "u1"},
          full \in BOOLEAN :
          SaveCodeSnippet(l, c, u, full)
    \/ \E s \in 1..Len(saves), r \in SaveOutcomes, full \in BOOLEAN :
          SaveResponds(s, r, full)
    \/ \E s \in 1..Len(saves), b \in ErrorBodies, full \in BOOLEAN :
          SaveErrorBody(s, b, full)

SpecStorage == InitStorage /\ [][NextStorage]_vars

----------------------------------------------------------------------------
(* SpecAuth: OAuth logins, callbacks with issued and forged states, logout    *)

InitAuth ==
    /\ impl = "ds"
    /\ socket = 0
    /\ ioCount = 0
    /\ calls = <<>>
    /\ execListeners = <<>>
    /\ joins = <<>>
    /\ resultSent = {}
    /\ ui = InitUI
    /\ creates = <<>>
    /\ createdListeners = <<>>
    /\ errorListeners = <<>>
    /\ handlers = <<>>
    /\ termEmits = <<>>
    /\ chunks = <<>>
    /\ backend = [answered |-> 0, sessions |-> 0, reachable |-> TRUE, attempts |-> 0,
                  langs |-> <<>>]
    /\ comp = InitComp
    /\ localStorage = EmptyStorage
    /\ requests = <<>>
    /\ saves = <<>>
    /\ callbacks = <<>>
    /\ authImpl \in {"api", "mock"}

NextAuth ==
    \/ \E p \in Providers, s \in IssuedStates, full \in BOOLEAN :
          GenerateRandomState(p, s, full)
    \/ \E p \in Providers, c \in {"c1"}, s \in GivenStates :
          HandleAuthCallback(p, c, s)
    \/ \E k \in 1..Len(callbacks), r \in AuthOutcomes : AuthResponds(k, r)
    \/ \E k \in 1..Len(callbacks), b \in ErrorBodies : AuthErrorBody(k, b)
    \/ \E k \in 1..Len(callbacks), b \in {"data", "garbage"}, full \in BOOLEAN :
          AuthData(k, b, full)
    \/ \E k \in 1..Len(callbacks), full \in BOOLEAN : AuthTimerFires(k, full)
    \/ Logout

SpecAuth == InitAuth /\ [][NextAuth]_vars

----------------------------------------------------------------------------
(* C29 *)

\* the state of the call s before the step, "none" when the step makes the call
SaveStateBefore(s) == IF s <= Len(saves) THEN saves[s].state ELSE "none"

\* the code of the call v is what localStorage holds under its language key after
\* the step, unless the setItem of the step threw
StoredAfter(v) == v.full \/ GetItem(localStorage', CodeKey(v.language)) = v.code

----------------------------------------------------------------------------
(* C30 *)

\* the state stored for the provider of the call v before the step
SavedStateBefore(v) == GetItem(localStorage, AuthStateKey(v.provider))

\* C30: a handleAuthCallback call made while no state is stored for its provider,
\* or while the stored state differs from the given one, rejects in the same step
\* with 'Invalid state parameter. Authentication failed.', makes no backend
\* request and leaves the stored user and token as they were; a call rejected so
\* does nothing later; a call that was not rejected so was given the stored state
C30_CallbackOnlyWithIssuedState ==
    [][/\ \A k \in (Len(callbacks) + 1)..Len(callbacks') :
             LET v == callbacks'[k] IN
             IF SavedStateBefore(v) = NoItem \/ SavedStateBefore(v) # v.state
             THEN /\ v.status = "rejected"
                  /\ v.error = InvalidState
                  /\ requests' = requests
                  /\ GetItem(localStorage', USER_STORAGE_KEY)
                        = GetItem(localStorage, USER_STORAGE_KEY)
                  /\ GetItem(localStorage', TOKEN_STORAGE_KEY)
                        = GetItem(localStorage, TOKEN_STORAGE_KEY)
             ELSE v.error = InvalidState \/ v.state = SavedStateBefore(v)
       /\ \A k \in 1..Len(callbacks) :
             callbacks[k].error = InvalidState =>
                /\ callbacks'[k] = callbacks[k]
                /\ \A i \in 1..Len(requests') : requests'[i].by # k
      ]_vars

\* C30 witness: a user and a token are stored, a state is stored for the provider,
\* and a callback given another state was rejected with the message
C30_ForgedStateRejectedWhileLoggedIn ==
    \E k \in 1..Len(callbacks) :
        /\ callbacks[k].error = InvalidState
        /\ callbacks[k].status = "rejected"
        /\ callbacks[k].saved \in IssuedStates \ {<<>>}
        /\ callbacks[k].state # callbacks[k].saved
        /\ GetItem(localStorage, USER_STORAGE_KEY) # NoItem
        /\ GetItem(localStorage, TOKEN_STORAGE_KEY) # NoItem

============================================================================
